---- MODULE Spec2Model ----
(***************************************************************************)
(* OrderTracker (src/starter/backend/order_tracker.py) over a storage      *)
(* object offering save_order / get_order / get_all_orders.                *)
(*                                                                         *)
(* Encoding of Python values:                                              *)
(*   - a str is a TLA+ string; Python's None is the string None below      *)
(*     (no program string has that value);                                 *)
(*   - an "optional record" (the result of dict.get) is a sequence of      *)
(*     length 0 (None) or 1 (the record);                                  *)
(*   - a list of records is a sequence of records;                         *)
(*   - the storage dict is the pair (keys, orders): keys is the insertion  *)
(*     order of the dict, orders maps each key to its record.              *)
(* Every exception the tracker raises is a ValueError; err holds its       *)
(* message, or NoError when the call returned.                             *)
(***************************************************************************)
EXTENDS Integers, Sequences, FiniteSets, TLC

VARIABLES orders, keys, op, args, err, ret, calls

vars == <<orders, keys, op, args, err, ret, calls>>

---------------------------------------------------------------------------
(* Bounds of the inputs *)

MaxQuantity == 1

None == "<None>"
Absent == "<absent>"
NoError == "<no error>"

VALID_STATUSES == {"pending", "processing", "shipped", "delivered"}

OrderIdInputs == {"", "O1", "O2"}
ItemNameInputs == {"", "Pen"}
CustomerIdInputs == {"", "C1"}
QuantityInputs == -1 .. MaxQuantity
(* status of add_order: a str (of the enumeration, empty, or neither), or  *)
(* the parameter left out                                                  *)
AddStatusInputs == {"processing", "", "bogus", Absent}
(* new_status of update_order_status, status of list_orders_by_status *)
StatusInputs == VALID_STATUSES \cup {"", None, "bogus"}

---------------------------------------------------------------------------
(* Python truthiness of a str-or-None value: `if x` / `not x` *)
Truthy(x) == x # "" /\ x # None

(* The exception messages *)
DuplicateOrderError(order_id) == "Order with ID '" \o order_id \o "' already exists."
InvalidQuantityError == "Quantity must be a positive integer"
EmptyFieldError(field) == field \o " cannot be empty"
InvalidStatusError == "Invalid status"
OrderNotFoundError(order_id) == "Order with ID '" \o order_id \o "' not found"

---------------------------------------------------------------------------
(* The storage object: a dict keyed by order_id *)

get_order(o, order_id) ==
    IF order_id \in DOMAIN o THEN <<o[order_id]>> ELSE <<>>

save_order_keys(k, o, order_id) ==
    IF order_id \in DOMAIN o THEN k ELSE Append(k, order_id)

save_order(o, order_id, order) ==
    [id \in DOMAIN o \cup {order_id} |-> IF id = order_id THEN order ELSE o[id]]

(* orders.values(): the records in the dict's iteration order *)
get_all_orders_values(k, o) == [i \in 1 .. Len(k) |-> o[k[i]]]

---------------------------------------------------------------------------
(* The outcome of a call: the exception message (or NoError), the value    *)
(* returned, the storage methods called, and the storage afterwards.       *)

Raise(msg, called) ==
    [err |-> msg, ret |-> <<>>, calls |-> called, orders |-> orders, keys |-> keys]

Return(value, called, o, k) ==
    [err |-> NoError, ret |-> value, calls |-> called, orders |-> o, keys |-> k]

(* def add_order(..., status: str = "pending") *)
add_order_default_status(status) == IF status = Absent THEN "pending" ELSE status

(* Mutant: zero passes the quantity check *)
InvalidQuantity_NegativeOnly(quantity) == quantity < 0

InvalidQuantity(quantity) == quantity <= 0

InvalidStatus(status) == Truthy(status) /\ status \notin VALID_STATUSES

(* Mutant: the given status is dropped *)
StatusOrPending_AlwaysPending(status) == "pending"

StatusOrPending(status) == IF Truthy(status) THEN status ELSE "pending"

(* Mutant: the quantity check runs before the existence check *)
add_order_result_QuantityFirst(order_id, item_name, quantity, customer_id, status_arg) ==
    LET status == add_order_default_status(status_arg) IN
    IF InvalidQuantity(quantity)
    THEN Raise(InvalidQuantityError, <<"get_order">>)
    ELSE IF get_order(orders, order_id) # <<>>
    THEN Raise(DuplicateOrderError(order_id), <<"get_order">>)
    ELSE IF ~Truthy(order_id)
    THEN Raise(EmptyFieldError("order_id"), <<"get_order">>)
    ELSE IF ~Truthy(item_name)
    THEN Raise(EmptyFieldError("item_name"), <<"get_order">>)
    ELSE IF ~Truthy(customer_id)
    THEN Raise(EmptyFieldError("customer_id"), <<"get_order">>)
    ELSE IF InvalidStatus(status)
    THEN Raise(InvalidStatusError, <<"get_order">>)
    ELSE LET order == [order_id |-> order_id, item_name |-> item_name,
                       quantity |-> quantity, customer_id |-> customer_id,
                       status |-> StatusOrPending(status)]
         IN Return(<<>>, <<"get_order", "save_order">>,
                   save_order(orders, order_id, order),
                   save_order_keys(keys, orders, order_id))

(* Mutant: item_name is checked before order_id *)
add_order_result_ItemBeforeId(order_id, item_name, quantity, customer_id, status_arg) ==
    LET status == add_order_default_status(status_arg) IN
    IF get_order(orders, order_id) # <<>>
    THEN Raise(DuplicateOrderError(order_id), <<"get_order">>)
    ELSE IF InvalidQuantity(quantity)
    THEN Raise(InvalidQuantityError, <<"get_order">>)
    ELSE IF ~Truthy(item_name)
    THEN Raise(EmptyFieldError("item_name"), <<"get_order">>)
    ELSE IF ~Truthy(order_id)
    THEN Raise(EmptyFieldError("order_id"), <<"get_order">>)
    ELSE IF ~Truthy(customer_id)
    THEN Raise(EmptyFieldError("customer_id"), <<"get_order">>)
    ELSE IF InvalidStatus(status)
    THEN Raise(InvalidStatusError, <<"get_order">>)
    ELSE LET order == [order_id |-> order_id, item_name |-> item_name,
                       quantity |-> quantity, customer_id |-> customer_id,
                       status |-> StatusOrPending(status)]
         IN Return(<<>>, <<"get_order", "save_order">>,
                   save_order(orders, order_id, order),
                   save_order_keys(keys, orders, order_id))

add_order_result(order_id, item_name, quantity, customer_id, status_arg) ==
    LET status == add_order_default_status(status_arg) IN
    IF get_order(orders, order_id) # <<>>
    THEN Raise(DuplicateOrderError(order_id), <<"get_order">>)
    ELSE IF InvalidQuantity(quantity)
    THEN Raise(InvalidQuantityError, <<"get_order">>)
    ELSE IF ~Truthy(order_id)
    THEN Raise(EmptyFieldError("order_id"), <<"get_order">>)
    ELSE IF ~Truthy(item_name)
    THEN Raise(EmptyFieldError("item_name"), <<"get_order">>)
    ELSE IF ~Truthy(customer_id)
    THEN Raise(EmptyFieldError("customer_id"), <<"get_order">>)
    ELSE IF InvalidStatus(status)
    THEN Raise(InvalidStatusError, <<"get_order">>)
    ELSE LET order == [order_id |-> order_id, item_name |-> item_name,
                       quantity |-> quantity, customer_id |-> customer_id,
                       status |-> StatusOrPending(status)]
         IN Return(<<>>, <<"get_order", "save_order">>,
                   save_order(orders, order_id, order),
                   save_order_keys(keys, orders, order_id))

get_order_by_id_result(order_id) ==
    IF ~Truthy(order_id)
    THEN Raise(EmptyFieldError("order_id"), <<>>)
    ELSE Return(get_order(orders, order_id), <<"get_order">>, orders, keys)

(* Mutant: the assignment to order["status"] is lost *)
WithStatus_Unchanged(order, new_status) == order

(* Mutant: the update also overwrites another field *)
WithStatus_AndItemName(order, new_status) ==
    [order EXCEPT !.status = new_status, !.item_name = new_status]

WithStatus(order, new_status) == [order EXCEPT !.status = new_status]

(* Mutant: the order is looked up before the arguments are validated *)
update_order_status_result_LookupFirst(order_id, new_status) ==
    LET found == get_order(orders, order_id) IN
    IF ~Truthy(order_id)
    THEN Raise(EmptyFieldError("order_id"), <<"get_order">>)
    ELSE IF InvalidStatus(new_status)
    THEN Raise(InvalidStatusError, <<"get_order">>)
    ELSE IF found = <<>>
    THEN Raise(OrderNotFoundError(order_id), <<"get_order">>)
    ELSE Return(<<>>, <<"get_order", "save_order">>,
                save_order(orders, order_id, WithStatus(found[1], new_status)),
                save_order_keys(keys, orders, order_id))

(* Mutant: the status is validated only after the order was saved *)
update_order_status_result_SaveFirst(order_id, new_status) ==
    IF ~Truthy(order_id)
    THEN Raise(EmptyFieldError("order_id"), <<>>)
    ELSE LET found == get_order(orders, order_id) IN
         IF found = <<>>
         THEN Raise(OrderNotFoundError(order_id), <<"get_order">>)
         ELSE LET saved == save_order(orders, order_id, WithStatus(found[1], new_status))
              IN IF InvalidStatus(new_status)
                 THEN [err |-> InvalidStatusError, ret |-> <<>>,
                       calls |-> <<"get_order", "save_order">>,
                       orders |-> saved, keys |-> keys]
                 ELSE Return(<<>>, <<"get_order", "save_order">>, saved, keys)

update_order_status_result(order_id, new_status) ==
    IF ~Truthy(order_id)
    THEN Raise(EmptyFieldError("order_id"), <<>>)
    ELSE IF InvalidStatus(new_status)
    THEN Raise(InvalidStatusError, <<>>)
    ELSE LET got == get_order_by_id_result(order_id) IN
         IF got.err # NoError
         THEN got
         ELSE IF got.ret = <<>>
         THEN Raise(OrderNotFoundError(order_id), got.calls)
         ELSE Return(<<>>, got.calls \o <<"save_order">>,
                     save_order(orders, order_id, WithStatus(got.ret[1], new_status)),
                     save_order_keys(keys, orders, order_id))

list_all_orders_result ==
    Return(orders, <<"get_all_orders">>, orders, keys)

(* Mutant: the comprehension has no filter *)
FilterByStatus_All(all, status) == all

FilterByStatus(all, status) == SelectSeq(all, LAMBDA order : order["status"] = status)

list_orders_by_status_result(status) ==
    IF ~Truthy(status)
    THEN Raise(EmptyFieldError("status"), <<>>)
    ELSE IF status \notin VALID_STATUSES
    THEN Raise(InvalidStatusError, <<>>)
    ELSE Return(FilterByStatus(get_all_orders_values(keys, orders), status),
                <<"get_all_orders">>, orders, keys)

---------------------------------------------------------------------------
(* The state machine: one action per tracker method *)

Init ==
    /\ orders = <<>>
    /\ keys = <<>>
    /\ op = "__init__"
    /\ args = <<>>
    /\ err = NoError
    /\ ret = <<>>
    /\ calls = <<>>

(* What a call leaves behind: its exception or result, the storage calls   *)
(* it made, and the storage.                                               *)
Outcome(r) ==
    /\ err' = r.err
    /\ ret' = r.ret
    /\ calls' = r.calls
    /\ orders' = r.orders
    /\ keys' = r.keys

add_order ==
    \E order_id \in OrderIdInputs, item_name \in ItemNameInputs,
       quantity \in QuantityInputs, customer_id \in CustomerIdInputs,
       status \in AddStatusInputs :
        /\ op' = "add_order"
        /\ args' = [order_id |-> order_id, item_name |-> item_name,
                    quantity |-> quantity, customer_id |-> customer_id,
                    status |-> status]
        /\ Outcome(add_order_result(order_id, item_name, quantity, customer_id, status))

get_order_by_id ==
    \E order_id \in OrderIdInputs :
        /\ op' = "get_order_by_id"
        /\ args' = [order_id |-> order_id]
        /\ Outcome(get_order_by_id_result(order_id))

update_order_status ==
    \E order_id \in OrderIdInputs, new_status \in StatusInputs :
        /\ op' = "update_order_status"
        /\ args' = [order_id |-> order_id, status |-> new_status]
        /\ Outcome(update_order_status_result(order_id, new_status))

list_all_orders ==
    /\ op' = "list_all_orders"
    /\ args' = <<>>
    /\ Outcome(list_all_orders_result)

list_orders_by_status ==
    \E status \in StatusInputs :
        /\ op' = "list_orders_by_status"
        /\ args' = [status |-> status]
        /\ Outcome(list_orders_by_status_result(status))

Next ==
    \/ add_order
    \/ get_order_by_id
    \/ update_order_status
    \/ list_all_orders
    \/ list_orders_by_status

Spec == Init /\ [][Next]_vars

---------------------------------------------------------------------------
(* Vocabulary of the properties *)

(* an argument that is empty or absent *)
IsEmpty(x) == x \in {"", None}

StoredIds == DOMAIN orders

(* the four fields of a record that are not its status *)
FixedFields(order) ==
    <<order.order_id, order.item_name, order.quantity, order.customer_id>>

NoSave(called) == \A i \in 1 .. Len(called) : called[i] # "save_order"

---------------------------------------------------------------------------
(* C1: in every reachable state the status of every stored order is one   *)
(* of pending, processing, shipped, delivered (never None, never empty).   *)
C1_StatusAlwaysInEnumeration ==
    \A id \in StoredIds : orders[id].status \in VALID_STATUSES

(* C2: an order_id that an add_order stored is stored from then on, and    *)
(* every add_order with a stored order_id raises the duplicate error       *)
(* naming that id, whatever its other arguments are.                       *)
C2_DuplicateAddAlwaysRejected ==
    [][/\ (op' = "add_order" /\ err' = NoError) => args'.order_id \in DOMAIN orders'
       /\ StoredIds \subseteq DOMAIN orders'
       /\ (op' = "add_order" /\ args'.order_id \in StoredIds)
            => err' = DuplicateOrderError(args'.order_id)]_vars

C2_Witness ==
    /\ op = "add_order"
    /\ args.order_id \in StoredIds
    /\ args.quantity = 0 /\ args.item_name = "" /\ args.customer_id = ""
    /\ args.status = "bogus"
    /\ err = DuplicateOrderError(args.order_id)

(* C3: add_order raises the error of the earliest violation in the order   *)
(* stored id, quantity <= 0, empty order_id, empty item_name, empty        *)
(* customer_id, non-empty status outside the enumeration; it returns       *)
(* exactly when there is no violation.                                     *)
C3_AddOrderPrecedence ==
    [][op' = "add_order" =>
        LET a == args'
            v1 == a.order_id \in StoredIds
            v2 == a.quantity <= 0
            v3 == IsEmpty(a.order_id)
            v4 == IsEmpty(a.item_name)
            v5 == IsEmpty(a.customer_id)
            v6 == ~IsEmpty(a.status) /\ a.status # Absent /\ a.status \notin VALID_STATUSES
        IN /\ v1 => err' = DuplicateOrderError(a.order_id)
           /\ (~v1 /\ v2) => err' = InvalidQuantityError
           /\ (~v1 /\ ~v2 /\ v3) => err' = EmptyFieldError("order_id")
           /\ (~v1 /\ ~v2 /\ ~v3 /\ v4) => err' = EmptyFieldError("item_name")
           /\ (~v1 /\ ~v2 /\ ~v3 /\ ~v4 /\ v5) => err' = EmptyFieldError("customer_id")
           /\ (~v1 /\ ~v2 /\ ~v3 /\ ~v4 /\ ~v5 /\ v6) => err' = InvalidStatusError
           /\ (err' = NoError) <=> ~(v1 \/ v2 \/ v3 \/ v4 \/ v5 \/ v6)]_vars

C3_Witness ==
    /\ op = "add_order"
    /\ args.order_id = "" /\ args.quantity = 0 /\ args.item_name = ""
    /\ args.customer_id = "" /\ args.status = "bogus"
    /\ err = InvalidQuantityError

(* C4, second half (shared by the original and the amended statement):    *)
(* update_order_status on a stored id with a status of the enumeration     *)
(* returns and changes only the status of that record; get_order_by_id     *)
(* right after it returns that record, with the new status.                *)
C4_UpdateThenGet ==
    /\ (op' = "update_order_status" /\ args'.order_id \in StoredIds
        /\ args'.status \in VALID_STATUSES)
         => /\ err' = NoError
            /\ args'.order_id \in DOMAIN orders'
            /\ orders'[args'.order_id].status = args'.status
            /\ FixedFields(orders'[args'.order_id]) = FixedFields(orders[args'.order_id])
    /\ (op = "update_order_status" /\ err = NoError /\ args.status \in VALID_STATUSES
        /\ op' = "get_order_by_id" /\ args'.order_id = args.order_id)
         => /\ err' = NoError
            /\ ret' = <<orders[args.order_id]>>
            /\ ret'[1].status = args.status

(* C4 as stated: update_order_status on ANY order_id that is not stored    *)
(* raises the not-found error (and the second half above).                 *)
C4_Original ==
    [][/\ (op' = "update_order_status" /\ args'.order_id \notin StoredIds)
            => err' = OrderNotFoundError(args'.order_id)
       /\ C4_UpdateThenGet]_vars

(* C4 amended: update_order_status on a non-empty order_id that is not     *)
(* stored, with a new status that is empty or in the enumeration, raises   *)
(* the not-found error (and the second half above).                        *)
C4_Amended ==
    [][/\ (op' = "update_order_status" /\ args'.order_id \notin StoredIds
           /\ ~IsEmpty(args'.order_id)
           /\ (IsEmpty(args'.status) \/ args'.status \in VALID_STATUSES))
            => err' = OrderNotFoundError(args'.order_id)
       /\ C4_UpdateThenGet]_vars

C4_Witness ==
    /\ op = "update_order_status"
    /\ err = NoError
    /\ args.status = "shipped"
    /\ orders[args.order_id].status = "shipped"
    /\ \E id \in OrderIdInputs \ StoredIds : ~IsEmpty(id)

(* C5: add_order with valid arguments and an order_id not yet stored       *)
(* returns, and get_order_by_id right after it returns the record of the   *)
(* four given values with the given status, or pending when the status     *)
(* was left out or empty.                                                  *)
C5_AddThenGet ==
    [][/\ (op' = "add_order" /\ args'.order_id \notin StoredIds
           /\ ~IsEmpty(args'.order_id) /\ ~IsEmpty(args'.item_name)
           /\ args'.quantity >= 1 /\ ~IsEmpty(args'.customer_id)
           /\ args'.status \in VALID_STATUSES \cup {"", None, Absent})
            => err' = NoError
       /\ (op = "add_order" /\ err = NoError
           /\ op' = "get_order_by_id" /\ args'.order_id = args.order_id)
            => /\ err' = NoError
               /\ ret' = <<[order_id |-> args.order_id,
                            item_name |-> args.item_name,
                            quantity |-> args.quantity,
                            customer_id |-> args.customer_id,
                            status |-> IF args.status \in VALID_STATUSES
                                       THEN args.status ELSE "pending"]>>]_vars

C5_Witness ==
    /\ op = "get_order_by_id"
    /\ err = NoError
    /\ Len(ret) = 1
    /\ ret[1].status = "processing"
    /\ \E id \in StoredIds : id # args.order_id /\ orders[id].status = "pending"

(* C6: list_orders_by_status(s) with s in the enumeration returns every    *)
(* stored order of status s exactly once and nothing else (so the empty    *)
(* list when there is none); an empty s raises the empty-field error, any  *)
(* other s the invalid-status error.                                       *)
C6_ListByStatusExact ==
    op = "list_orders_by_status" =>
        IF IsEmpty(args.status)
        THEN err = EmptyFieldError("status")
        ELSE IF args.status \notin VALID_STATUSES
        THEN err = InvalidStatusError
        ELSE /\ err = NoError
             /\ \A i \in 1 .. Len(ret) :
                    /\ ret[i].order_id \in StoredIds
                    /\ ret[i] = orders[ret[i].order_id]
                    /\ ret[i].status = args.status
             /\ \A id \in StoredIds :
                    orders[id].status = args.status
                        => Cardinality({i \in 1 .. Len(ret) : ret[i] = orders[id]}) = 1
             /\ Len(ret) = Cardinality({id \in StoredIds : orders[id].status = args.status})

C6_Witness ==
    /\ op = "list_orders_by_status"
    /\ err = NoError
    /\ Len(ret) = 1
    /\ Cardinality(StoredIds) = 2

(* C7: update_order_status raises the empty-field error for an empty       *)
(* order_id, else the invalid-status error for a non-empty status outside  *)
(* the enumeration, both without any storage call and with the storage     *)
(* unchanged; only then does it read the storage, raising the not-found    *)
(* error for an id that is not stored.                                     *)
C7_UpdateValidatesBeforeStorage ==
    [][op' = "update_order_status" =>
        IF IsEmpty(args'.order_id)
        THEN err' = EmptyFieldError("order_id") /\ calls' = <<>>
             /\ orders' = orders /\ keys' = keys
        ELSE IF ~IsEmpty(args'.status) /\ args'.status \notin VALID_STATUSES
        THEN err' = InvalidStatusError /\ calls' = <<>>
             /\ orders' = orders /\ keys' = keys
        ELSE IF args'.order_id \notin StoredIds
        THEN err' = OrderNotFoundError(args'.order_id) /\ calls' = <<"get_order">>
        ELSE err' = NoError /\ calls' = <<"get_order", "save_order">>]_vars

C7_Witness ==
    /\ op = "update_order_status"
    /\ args.order_id = "O2" /\ "O2" \notin StoredIds
    /\ args.status = "bogus"
    /\ err = InvalidStatusError
    /\ calls = <<>>

(* C8: every stored order has an integer quantity >= 1. *)
C8_StoredQuantityPositive ==
    \A id \in StoredIds : orders[id].quantity \in Int /\ orders[id].quantity >= 1

C8_Witness ==
    /\ op = "add_order"
    /\ args.quantity = 0
    /\ ~IsEmpty(args.order_id) /\ args.order_id \notin StoredIds
    /\ err = InvalidQuantityError
    /\ StoredIds # {}

(* C9: a stored order_id stays stored; its record keeps the order_id,      *)
(* item_name, quantity and customer_id of the add_order that created it;   *)
(* a stored record changes only by an update_order_status of its id, and   *)
(* then only in its status.                                                *)
C9_OrdersOnlyChangeStatus ==
    [][/\ StoredIds \subseteq DOMAIN orders'
       /\ \A id \in StoredIds :
            /\ FixedFields(orders'[id]) = FixedFields(orders[id])
            /\ orders'[id] # orders[id]
                 => op' = "update_order_status" /\ args'.order_id = id
       /\ \A id \in DOMAIN orders' \ StoredIds :
            /\ op' = "add_order" /\ args'.order_id = id
            /\ FixedFields(orders'[id]) =
                 <<id, args'.item_name, args'.quantity, args'.customer_id>>]_vars

C9_Witness ==
    /\ op = "add_order"
    /\ args.order_id \in StoredIds
    /\ args.status = "processing"
    /\ args.quantity >= 1 /\ ~IsEmpty(args.item_name) /\ ~IsEmpty(args.customer_id)
    /\ orders[args.order_id].status = "delivered"
    /\ err = DuplicateOrderError(args.order_id)

(* C10: a call that raises leaves the storage as it was and saves          *)
(* nothing; a successful update_order_status changes no record but the     *)
(* one of its order_id; get_order_by_id, list_all_orders and               *)
(* list_orders_by_status change nothing.                                   *)
C10_FrameOfEachCall ==
    [][/\ err' # NoError => orders' = orders /\ keys' = keys /\ NoSave(calls')
       /\ (op' = "update_order_status" /\ err' = NoError)
            => /\ DOMAIN orders' = StoredIds
               /\ keys' = keys
               /\ \A id \in StoredIds \ {args'.order_id} : orders'[id] = orders[id]
       /\ op' \in {"get_order_by_id", "list_all_orders", "list_orders_by_status"}
            => orders' = orders /\ keys' = keys /\ NoSave(calls')]_vars

C10_Witness ==
    /\ op = "update_order_status"
    /\ err = NoError
    /\ \E id \in StoredIds \ {args.order_id} : orders[id].status # args.status

====
